---------------------------- MODULE Spec2Model ----------------------------
(***************************************************************************)
(* The order ledger of the print service (src/app.py) and of the cake      *)
(* studio (src/CakeApp/app.py): a table kept in one spreadsheet, which the *)
(* apps can only read whole (conn.read) and overwrite whole (conn.update). *)
(* save_order and update_status are read-then-write sequences run by       *)
(* Streamlit sessions; nothing isolates the read of one session from the   *)
(* write of another.                                                       *)
(***************************************************************************)
EXTENDS Integers, Sequences, FiniteSets, TLC

\* Bounds of the model.
NumSessions == 2   \* sessions (script runs) that may be in flight together
MaxCalls == 3      \* save_order and update_status calls in one behaviour

Sessions == 1..NumSessions

\* The two deployments: src/app.py and src/CakeApp/app.py.
Apps == {"print", "cake"}

VARIABLES
    app,        \* which of the two apps the sessions run
    store,      \* the spreadsheet: a sequence of rows
    pc,         \* pc[s]: "idle", "save_write" (save_order between its read
                \* and its conn.update) or "upd_write" (update_status likewise)
    call,       \* call[s]: the call session s is in, with its arguments
    df,         \* df[s]: the table get_all_orders returned to the call
    new_id,     \* new_id[s]: the id save_order computed
    ver,        \* ver[s]: how many writes the store had taken when s read it,
                \* -1 when its conn.read raised
    clock,      \* save_order calls begun so far; the date of the next one
    nupd,       \* update_status calls begun so far
    nwrites,    \* conn.update calls that reached the store
    returned,   \* the save_order calls that returned, in order of return
    last,       \* the call that completed last, and how it ended
    faults,     \* whether a conn.read or a conn.update has raised so far
    arg,        \* what the page in front of the user was given: the input of
                \* the function looked at, or the counts of the forms sent
    out         \* what that page shows: the result and the messages

ledger == <<app, store, pc, call, df, new_id, ver, clock, nupd, nwrites,
            returned, last, faults>>

vars == <<app, store, pc, call, df, new_id, ver, clock, nupd, nwrites,
          returned, last, faults, arg, out>>

------------------------------------------------------------------------------
\* Inputs.

None == <<>>

\* A phone is the sequence of the characters typed.
Digits == {"0", "1", "2", "3", "4", "5", "6", "7", "8", "9"}

\* The submissions a customer may make: (name, phone, email, amount, details).
\* The date of an order is the count of the save_order calls begun, so that no
\* two orders share one.
Submissions ==
    { [name |-> "Asha", phone |-> <<"9", "9", "8", "-", "8", "7", "7", "-", "7", "7", "7", "7">>,
       email |-> "asha@example.com", amount |-> 48,
       details |-> [color |-> "Mixed (B&W + Color)", paper |-> "Standard", pages |-> 12]],
      [name |-> "Ben", phone |-> <<"9", "1", "2", "3", "4", "5", "6", "7", "8", "0">>,
       email |-> "", amount |-> 20,
       details |-> [color |-> "Black & White", paper |-> "Standard", pages |-> 10]] }

\* The arguments staff may give update_status.
OrderIds == 0..MaxCalls
\* (new_status, payment_status, new_amount): one call that gives an amount and
\* one that leaves it out.
Changes ==
    { [new_status |-> "Waiting for Payment", payment_status |-> "Unpaid", new_amount |-> <<60>>],
      [new_status |-> "Completed", payment_status |-> "Paid", new_amount |-> None] }

UpdateArgs ==
    { [order_id |-> i, new_status |-> c.new_status,
       payment_status |-> c.payment_status, new_amount |-> c.new_amount] :
      i \in OrderIds, c \in Changes }

NoCall == [op |-> "none", in |-> <<>>, date |-> 0, readOk |-> FALSE]
\* How a call ended: what it was, whether it returned or raised, the id a
\* save_order returned, whether its conn.read returned, and whether it was an
\* update_status repeating, argument for argument, the update_status that had
\* just returned after reading the table.
Ended(op, in, outcome, id, readOk, again) ==
    [op |-> op, in |-> in, outcome |-> outcome, id |-> id, readOk |-> readOk, again |-> again]

NoLast == Ended("none", <<>>, "none", 0, FALSE, FALSE)

------------------------------------------------------------------------------
\* The pure parts of the code.

\* A string is the sequence of its characters.
DigitChars == {"0", "1", "2", "3", "4", "5", "6", "7", "8", "9"}

DigitValue(c) ==
    CASE c = "0" -> 0 [] c = "1" -> 1 [] c = "2" -> 2 [] c = "3" -> 3 [] c = "4" -> 4
      [] c = "5" -> 5 [] c = "6" -> 6 [] c = "7" -> 7 [] c = "8" -> 8 [] c = "9" -> 9

\* str.split(sep): the pieces between the separators, at least one piece.
RECURSIVE SplitOn(_, _)
SplitOn(s, sep) ==
    IF \A i \in DOMAIN s : s[i] # sep
    THEN <<s>>
    ELSE LET i == CHOOSE k \in DOMAIN s : s[k] = sep /\ \A j \in 1..(k - 1) : s[j] # sep
         IN  <<SubSeq(s, 1, i - 1)>> \o SplitOn(SubSeq(s, i + 1, Len(s)), sep)

\* str.strip()
RECURSIVE Strip(_)
Strip(s) ==
    IF s # <<>> /\ Head(s) = " " THEN Strip(Tail(s))
    ELSE IF s # <<>> /\ s[Len(s)] = " " THEN Strip(SubSeq(s, 1, Len(s) - 1))
    ELSE s

RECURSIVE DecimalValue(_)
DecimalValue(d) ==
    IF d = <<>> THEN 0
    ELSE DecimalValue(SubSeq(d, 1, Len(d) - 1)) * 10 + DigitValue(d[Len(d)])

\* int(s): blanks around the number are allowed, then an optional sign, then
\* one digit at least; anything else is a ValueError.
ParseInt(s) ==
    LET t == Strip(s)
        signed == t # <<>> /\ Head(t) \in {"+", "-"}
        digits == IF signed THEN Tail(t) ELSE t
    IN  IF digits = <<>> \/ \E i \in DOMAIN digits : digits[i] \notin DigitChars
        THEN [error |-> "ValueError", val |-> 0]
        ELSE [error |-> "none",
              val |-> IF signed /\ Head(t) = "-" THEN 0 - DecimalValue(digits)
                      ELSE DecimalValue(digits)]

\* The texts an id cell of a sheet may hold: a number, a word and a blank.
TextCells == << <<"1">>, <<"A", "7">>, <<>> >>

\* An id cell is a number, which is not negative, or a text: the text
\* TextCells[k] is written 0 - k.
TextIds == {0 - k : k \in DOMAIN TextCells}

\* pd.to_numeric(df['id'], errors='coerce').fillna(0).astype(int): a number
\* stays, a text that reads as a number becomes it, any other text becomes 0.
ToNumericId(v) ==
    IF v >= 0 THEN v
    ELSE LET parsed == ParseInt(TextCells[0 - v])
         IN  IF parsed.error = "none" THEN parsed.val ELSE 0

\* expected_cols
ExpectedCols ==
    {"id", "date", "name", "phone", "email", "status", "payment_status", "amount", "details"}

\* df.columns: every row of a table has the columns of the table.
Columns(t) == DOMAIN t[1]

\* Faulty variant: the test of the columns left out.
GetAllOrdersAnyColumns(t, ok) ==
    IF ~ok \/ t = <<>>
    THEN <<>>
    ELSE [i \in DOMAIN t |->
            IF "id" \in DOMAIN t[i] THEN [t[i] EXCEPT !.id = ToNumericId(@)] ELSE t[i]]

\* get_all_orders: the table the caller gets; ok is whether conn.read returned.
\* The empty DataFrame it builds is the table without rows.
GetAllOrders(t, ok) ==
    IF ~ok \/ t = <<>> \/ ~(ExpectedCols \subseteq Columns(t))
    THEN <<>>
    ELSE [i \in DOMAIN t |-> [t[i] EXCEPT !.id = ToNumericId(@)]]

\* Faulty variant: the id of the first row, df['id'].iloc[0], for the maximum.
MaxIdOfFirstRow(t) == t[1].id

\* df['id'].max()
MaxIdOf(t) ==
    CHOOSE m \in {t[i].id : i \in DOMAIN t} : \A j \in DOMAIN t : t[j].id <= m

\* Faulty variant: the + 1 forgotten.
NewIdNoIncrement(t) == IF t # <<>> THEN MaxIdOf(t) ELSE 1

\* save_order: "Generate New ID"
NewId(t) == IF t # <<>> THEN MaxIdOf(t) + 1 ELSE 1

\* re.sub(r'\D', '', str(phone)), applied when phone is not empty
CleanPhone(ph) == IF ph # <<>> THEN SelectSeq(ph, LAMBDA c : c \in Digits) ELSE ph

\* Faulty variant: the print app files a new order as Completed.
InitialStatusPaidUp(a) == IF a = "print" THEN "Completed" ELSE "Order Received"

\* The status a new order gets in each app.
InitialStatus(a) == IF a = "print" THEN "Pending" ELSE "Order Received"

\* The keys of the details of an order, as the forms write them.
DetailKeys ==
    <<"color", "paper", "sides", "pages", "flavor", "weight", "shape", "toppings", "message">>

\* str(details): the text of the dict, its items in the order of the keys.
StrOf(d) ==
    LET keys == SelectSeq(DetailKeys, LAMBDA k : k \in DOMAIN d)
    IN  [i \in DOMAIN keys |-> <<keys[i], d[keys[i]]>>]

\* save_order: new_order
NewOrder(a, id, date, s) ==
    [id |-> id, date |-> date, name |-> s.name, phone |-> CleanPhone(s.phone),
     email |-> s.email, status |-> InitialStatus(a), payment_status |-> "Unpaid",
     amount |-> s.amount, details |-> StrOf(s.details)]

\* pd.concat([df, new_order], ignore_index=True)
UpdatedDf(t, row) == Append(t, row)

\* Faulty variant: the mask.any() test left out.
MaskAnyAlways(t, id) == TRUE

\* mask = df['id'] == int(order_id); mask.any()
MaskAny(t, id) == \E i \in DOMAIN t : t[i].id = id

\* Faulty variant: the mask left out, every row assigned.
ApplyUpdateAllRows(t, a) ==
    [i \in DOMAIN t |->
        [t[i] EXCEPT !.status = a.new_status,
                     !.payment_status = a.payment_status,
                     !.amount = IF a.new_amount = None THEN @ ELSE a.new_amount[1]]]

\* Faulty variant: the amount added to the stored one, not put in its place.
ApplyUpdateAddAmount(t, a) ==
    [i \in DOMAIN t |->
        IF t[i].id = a.order_id
        THEN [t[i] EXCEPT !.status = a.new_status,
                          !.payment_status = a.payment_status,
                          !.amount = IF a.new_amount = None THEN @ ELSE @ + a.new_amount[1]]
        ELSE t[i]]

\* The place of a status in the order the shop works through.
StatusRank(st) ==
    CASE st = "Pending" -> 1 [] st = "Waiting for Payment" -> 2 [] st = "Printing" -> 3
      [] st = "Ready for Pickup" -> 4 [] st = "Completed" -> 5 [] OTHER -> 0

\* Faulty variant: a row is changed only when its status does not go back.
ApplyUpdateForwardOnly(t, a) ==
    [i \in DOMAIN t |->
        IF t[i].id = a.order_id /\ StatusRank(a.new_status) >= StatusRank(t[i].status)
        THEN [t[i] EXCEPT !.status = a.new_status,
                          !.payment_status = a.payment_status,
                          !.amount = IF a.new_amount = None THEN @ ELSE a.new_amount[1]]
        ELSE t[i]]

\* Faulty variant: only the first row with the id is changed.
ApplyUpdateFirstMatch(t, a) ==
    [i \in DOMAIN t |->
        IF t[i].id = a.order_id /\ \A j \in 1..(i - 1) : t[j].id # a.order_id
        THEN [t[i] EXCEPT !.status = a.new_status,
                          !.payment_status = a.payment_status,
                          !.amount = IF a.new_amount = None THEN @ ELSE a.new_amount[1]]
        ELSE t[i]]

\* update_status: the df.loc[mask, ...] assignments; float(new_amount) is the
\* same number.
ApplyUpdate(t, a) ==
    [i \in DOMAIN t |->
        IF t[i].id = a.order_id
        THEN [t[i] EXCEPT !.status = a.new_status,
                          !.payment_status = a.payment_status,
                          !.amount = IF a.new_amount = None THEN @ ELSE a.new_amount[1]]
        ELSE t[i]]

------------------------------------------------------------------------------
\* The state after construction: an empty sheet, no call in flight.

\* No call in progress and none made yet.
NoCalls ==
    /\ pc = [s \in Sessions |-> "idle"]
    /\ call = [s \in Sessions |-> NoCall]
    /\ df = [s \in Sessions |-> <<>>]
    /\ new_id = [s \in Sessions |-> 0]
    /\ ver = [s \in Sessions |-> 0]
    /\ clock = 0
    /\ nupd = 0
    /\ nwrites = 0
    /\ returned = <<>>
    /\ last = NoLast
    /\ faults = FALSE

\* The table before any order and no call in progress.
NoOrders == store = <<>> /\ NoCalls

Init ==
    /\ app \in Apps
    /\ NoOrders
    /\ arg = <<>>
    /\ out = <<>>

\* The locals of a call are gone when it returns or raises.
Return(s) ==
    /\ pc' = [pc EXCEPT ![s] = "idle"]
    /\ call' = [call EXCEPT ![s] = NoCall]
    /\ df' = [df EXCEPT ![s] = <<>>]
    /\ new_id' = [new_id EXCEPT ![s] = 0]
    /\ ver' = [ver EXCEPT ![s] = 0]

\* save_order(sub.name, ...) up to conn.update: get_all_orders, the new id,
\* the date.
SaveOrderBegin(s, sub) ==
    /\ pc[s] = "idle"
    /\ clock + nupd < MaxCalls
    /\ \E ok \in BOOLEAN :
          LET t == GetAllOrders(store, ok) IN
          /\ df' = [df EXCEPT ![s] = t]
          /\ new_id' = [new_id EXCEPT ![s] = NewId(t)]
          /\ call' = [call EXCEPT ![s] = [op |-> "save_order", in |-> sub, date |-> clock + 1,
                                          readOk |-> ok]]
          /\ ver' = [ver EXCEPT ![s] = IF ok THEN nwrites ELSE -1]
          /\ faults' = (faults \/ ~ok)
    /\ pc' = [pc EXCEPT ![s] = "save_write"]
    /\ clock' = clock + 1
    /\ UNCHANGED <<app, store, nupd, nwrites, returned, last>>

\* save_order called with one of the submissions.
SaveOrderRead(s) ==
    /\ \E sub \in Submissions : SaveOrderBegin(s, sub)
    /\ UNCHANGED <<arg, out>>

\* Variant: the id worked out from the store as it is at the write.
SavedIdAtWrite(s) == NewId(store)

\* The id save_order puts in the new row and returns: the one it worked out
\* from the table it read.
SavedId(s) == new_id[s]

\* Variant: the new row added to what the store holds at the write.
SavedTableAppended(s) ==
    UpdatedDf(store, NewOrder(app, SavedId(s), call[s].date, call[s].in))

\* updated_df: the table save_order read, with the new row.
SavedTable(s) ==
    UpdatedDf(df[s], NewOrder(app, SavedId(s), call[s].date, call[s].in))

\* save_order from conn.update on: the whole table is overwritten and the id
\* returned, or conn.update raises and save_order with it.
SaveOrderWrite(s) ==
    /\ pc[s] = "save_write"
    /\ \/ /\ store' = SavedTable(s)
          /\ nwrites' = nwrites + 1
          /\ returned' = Append(returned, [date |-> call[s].date, id |-> SavedId(s),
                                           ver |-> ver[s]])
          /\ last' = Ended("save_order", call[s].in, "returned", SavedId(s), call[s].readOk, FALSE)
          /\ UNCHANGED faults
       \/ /\ last' = Ended("save_order", call[s].in, "raised", 0, call[s].readOk, FALSE)
          /\ faults' = TRUE
          /\ UNCHANGED <<store, nwrites, returned>>
    /\ Return(s)
    /\ UNCHANGED <<app, clock, nupd, arg, out>>

\* Whether a call with arguments a repeats the call that completed last.
Repeats(a) ==
    last.op = "update_status" /\ last.outcome = "returned" /\ last.readOk /\ last.in = a

\* update_status up to conn.update; it returns at once when the table read is
\* empty or no row has the id.
UpdateStatusBegin(s, a) ==
    /\ pc[s] = "idle"
    /\ clock + nupd < MaxCalls
    /\ nupd' = nupd + 1
    /\ \E ok \in BOOLEAN :
          LET t == GetAllOrders(store, ok) IN
          /\ faults' = (faults \/ ~ok)
          /\ IF t # <<>> /\ MaskAny(t, a.order_id)
             THEN /\ pc' = [pc EXCEPT ![s] = "upd_write"]
                  /\ call' = [call EXCEPT ![s] = [op |-> "update_status", in |-> a, date |-> 0,
                                                  readOk |-> ok]]
                  /\ df' = [df EXCEPT ![s] = ApplyUpdate(t, a)]
                  /\ ver' = [ver EXCEPT ![s] = nwrites]
                  /\ UNCHANGED <<new_id, last>>
             ELSE /\ last' = Ended("update_status", a, "returned", 0, ok, Repeats(a))
                  /\ UNCHANGED <<pc, call, df, new_id, ver>>
    /\ UNCHANGED <<app, store, clock, nwrites, returned>>

\* update_status called with one of the arguments staff may give.
UpdateStatusRead(s) ==
    /\ \E a \in UpdateArgs : UpdateStatusBegin(s, a)
    /\ UNCHANGED <<arg, out>>

\* A write that would change only the rows of the call in the table as it is now.
ConnUpdateMerged(t, data, a) == ApplyUpdate(t, a)

\* conn.update(data=df) in update_status: the sheet becomes the frame handed over.
ConnUpdate(t, data, a) == data

\* update_status from conn.update on.
UpdateStatusWrite(s) ==
    /\ pc[s] = "upd_write"
    /\ \/ /\ store' = ConnUpdate(store, df[s], call[s].in)
          /\ nwrites' = nwrites + 1
          /\ last' = Ended("update_status", call[s].in, "returned", 0, TRUE, Repeats(call[s].in))
          /\ UNCHANGED faults
       \/ /\ last' = Ended("update_status", call[s].in, "raised", 0, TRUE, Repeats(call[s].in))
          /\ faults' = TRUE
          /\ UNCHANGED <<store, nwrites>>
    /\ Return(s)
    /\ UNCHANGED <<app, clock, nupd, returned, arg, out>>

\* Sessions run as the server schedules them: any interleaving of the steps.
Next ==
    \E s \in Sessions :
        \/ SaveOrderRead(s)
        \/ SaveOrderWrite(s)
        \/ UpdateStatusRead(s)
        \/ UpdateStatusWrite(s)

Spec == Init /\ [][Next]_vars

\* Sequential use: a call begins only when no other call is in flight.
Quiescent == \A s \in Sessions : pc[s] = "idle"

NextSeq ==
    \E s \in Sessions :
        \/ Quiescent /\ SaveOrderRead(s)
        \/ SaveOrderWrite(s)
        \/ Quiescent /\ UpdateStatusRead(s)
        \/ UpdateStatusWrite(s)

SpecSeq == Init /\ [][NextSeq]_vars

------------------------------------------------------------------------------
\* What the claims speak of.

\* The ids of a table, and their maximum counted from 0.
IdsOf(t) == {t[i].id : i \in DOMAIN t}
MaxOrZero(t) == CHOOSE m \in IdsOf(t) \cup {0} : \A n \in IdsOf(t) \cup {0} : n <= m
DistinctIds(t) == \A i, j \in DOMAIN t : i # j => t[i].id # t[j].id

\* A row is the order of one save_order call, which its date names.
HasOrder(t, date) == \E k \in DOMAIN t : t[k].date = date

\* Steps: session s leaves save_order with an id; session s ends the
\* conn.update of update_status; some session begins update_status.
SaveReturns(s) == pc[s] = "save_write" /\ pc'[s] = "idle" /\ last'.outcome = "returned"
UpdateWrites(s) == pc[s] = "upd_write" /\ pc'[s] = "idle"
UpdateBegins == nupd' = nupd + 1

\* C1: from the empty table, with no read and no write failing, the save_order
\* calls of a sequential run return 1, 2, ..., N in that order.
C1_SequentialIds == ~faults => \A i \in DOMAIN returned : returned[i].id = i

C1_Witness == ~faults /\ Len(returned) >= 3

\* C2: in a sequential run the ids of the stored rows are pairwise distinct,
\* and the row a save_order adds has the id (largest id of the table the call
\* read, 0 for an empty one) + 1.
C2_UniqueIdsNextIsMaxPlusOne ==
    /\ [](DistinctIds(store))
    /\ [][\A s \in Sessions :
            SaveReturns(s) => store'[Len(store')].id = MaxOrZero(df[s]) + 1]_vars

C2_Witness == Len(store) >= 2 /\ nupd >= 1 /\ last.op = "save_order" /\ last.outcome = "returned"

\* C3: two save_order calls that both read the store before a write of either
\* (or of anyone) reached it, both reads returning, are returned the same id;
\* the witness is two submissions that were.
C3_SameReadSameId ==
    \A i, j \in DOMAIN returned :
        (returned[i].ver = returned[j].ver /\ returned[i].ver >= 0)
            => returned[i].id = returned[j].id

C3_Witness ==
    /\ ~faults
    /\ \E i, j \in DOMAIN returned :
          /\ returned[i].date # returned[j].date
          /\ returned[i].id = returned[j].id

\* C4: the write of save_order puts the table the call read, plus its own row,
\* in place of the store: an order that reached the store after that read is
\* gone from it. The witness is an order whose save_order returned an id and
\* which no row holds once every call has ended.
C4_WriteClobbers ==
    [][\A s \in Sessions :
          SaveReturns(s) =>
              \A i \in DOMAIN store :
                  ~HasOrder(df[s], store[i].date) => ~HasOrder(store', store[i].date)]_vars

C4_Witness ==
    /\ ~faults
    /\ Quiescent
    /\ \E i, j \in DOMAIN returned :
          /\ i < j /\ returned[i].ver = returned[j].ver
          /\ ~HasOrder(store, returned[i].date)
          /\ HasOrder(store, returned[j].date)

\* C5: in a sequential run, conn.read failing or not, the ids save_order
\* returns are strictly increasing, so none is returned twice.
C5_ReturnedIdsIncrease ==
    \A i, j \in DOMAIN returned : i < j => returned[i].id < returned[j].id

\* C6: in a sequential run, conn.read failing or not, no step removes an order
\* from the store and the row count never decreases.
C6_RowsPersist ==
    [][/\ Len(store') >= Len(store)
       /\ \A i \in DOMAIN store :
             \E k \in DOMAIN store' :
                 store'[k].id = store[i].id /\ store'[k].date = store[i].date]_vars

\* C7: save_order writes the table it read, unchanged, followed by one row:
\* the returned id, Unpaid, the app's initial status, and the name, email,
\* amount and (as text) details submitted.
C7_SaveAppendsOneRow ==
    [][\A s \in Sessions :
          SaveReturns(s) =>
              /\ Len(store') = Len(df[s]) + 1
              /\ SubSeq(store', 1, Len(df[s])) = df[s]
              /\ LET row == store'[Len(store')] IN
                 /\ row.id = last'.id
                 /\ row.payment_status = "Unpaid"
                 /\ row.status = (IF app = "print" THEN "Pending" ELSE "Order Received")
                 /\ row.name = call[s].in.name
                 /\ row.email = call[s].in.email
                 /\ row.amount = call[s].in.amount
                 /\ row.details = StrOf(call[s].in.details)]_vars

C7_Witness ==
    /\ last.op = "save_order" /\ last.outcome = "returned"
    /\ Len(store) >= 2
    /\ store[Len(store)].id = last.id
    /\ store[1].status = "Completed"

C9_UnmatchedIdIsNoOp ==
    [][UpdateBegins =>
          \/ \E s \in Sessions :
                /\ pc[s] = "idle" /\ pc'[s] = "upd_write"
                /\ MaskAny(store, call'[s].in.order_id)
          \/ /\ pc' = pc
             /\ last'.op = "update_status"
             /\ last'.outcome = "returned"
             /\ ~(last'.readOk /\ MaskAny(store, last'.in.order_id))
             /\ store' = store
             /\ nwrites' = nwrites]_vars

C9_Witness ==
    /\ last.op = "update_status" /\ last.outcome = "returned" /\ last.readOk
    /\ store # <<>>
    /\ ~MaskAny(store, last.in.order_id)

\* C10: in a sequential run, an update_status that repeats, argument for
\* argument, the update_status that has just returned leaves the table as
\* that one left it.
C10_UpdateIdempotent ==
    [][/\ (UpdateBegins /\ last'.again) => store' = store
       /\ \A s \in Sessions :
             (UpdateWrites(s) /\ last'.again) => store' = store]_vars

C10_Witness ==
    /\ last.op = "update_status" /\ last.outcome = "returned" /\ last.again
    /\ nwrites = Len(returned) + 2
    /\ \E i \in DOMAIN store : store[i].id = last.in.order_id /\ store[i].amount = 60


\* ---------------------------------------------------------------------------
\* calculate_price
\* ---------------------------------------------------------------------------

MaxPages == 4

ColorModes == {"Black & White", "Full Color", "Mixed (B&W + Color)"}

PaperTypes == {"Standard", "Glossy"}

PriceInputs ==
    [pages : 0..MaxPages, color_mode : ColorModes, paper_type : PaperTypes,
     mixed_color_pages : 0..(MaxPages + 1)]

\* Faulty variant: the colour mode is looked at before the paper.
CalculatePriceColourFirst(pages, color_mode, paper_type, mixed_color_pages) ==
    IF color_mode = "Full Color"
    THEN pages * 10
    ELSE IF paper_type = "Glossy"
    THEN pages * 20
    ELSE IF color_mode = "Mixed (B&W + Color)"
    THEN LET mixed == IF mixed_color_pages > pages THEN pages ELSE mixed_color_pages
         IN  (mixed * 10) + ((pages - mixed) * 2)
    ELSE pages * 2

\* Faulty variant: the colour pages are not held down to the page total.
CalculatePriceNoClamp(pages, color_mode, paper_type, mixed_color_pages) ==
    IF paper_type = "Glossy"
    THEN pages * 20
    ELSE IF color_mode = "Full Color"
    THEN pages * 10
    ELSE IF color_mode = "Mixed (B&W + Color)"
    THEN (mixed_color_pages * 10) + ((pages - mixed_color_pages) * 2)
    ELSE pages * 2

\* Faulty variant: the black-and-white pages are taken before the clamp.
CalculatePriceEarlyBw(pages, color_mode, paper_type, mixed_color_pages) ==
    IF paper_type = "Glossy"
    THEN pages * 20
    ELSE IF color_mode = "Full Color"
    THEN pages * 10
    ELSE IF color_mode = "Mixed (B&W + Color)"
    THEN LET mixed == IF mixed_color_pages > pages THEN pages ELSE mixed_color_pages
         IN  (mixed * 10) + ((pages - mixed_color_pages) * 2)
    ELSE pages * 2

\* calculate_price; the rates 20.0, 10.0 and 2.0 are whole, so are the prices.
CalculatePrice(pages, color_mode, paper_type, mixed_color_pages) ==
    IF paper_type = "Glossy"
    THEN pages * 20
    ELSE IF color_mode = "Full Color"
    THEN pages * 10
    ELSE IF color_mode = "Mixed (B&W + Color)"
    THEN LET mixed == IF mixed_color_pages > pages THEN pages ELSE mixed_color_pages
             bw_pages == pages - mixed
         IN  (mixed * 10) + (bw_pages * 2)
    ELSE pages * 2

InitPrice ==
    /\ app = "print"
    /\ NoOrders
    /\ arg \in PriceInputs
    /\ out = <<>>

\* One evaluation of calculate_price on the arguments in hand; the page may
\* be drawn again, which evaluates it again on the same arguments.
CalculatePriceCall ==
    /\ arg \in PriceInputs
    /\ out' = [price |-> CalculatePrice(arg.pages, arg.color_mode, arg.paper_type,
                                         arg.mixed_color_pages),
               runs |-> IF out = <<>> THEN 1 ELSE 2]
    /\ UNCHANGED <<ledger, arg>>

NextPrice == CalculatePriceCall

SpecPrice == InitPrice /\ [][NextPrice]_vars


Min(a, b) == IF a < b THEN a ELSE b

\* C15: on Glossy paper the price is pages x 20, whatever the colour mode and
\* the number of colour pages.
C15_GlossyDominates ==
    (out # <<>> /\ arg.paper_type = "Glossy") => out.price = arg.pages * 20

C15_Witness ==
    /\ out # <<>>
    /\ arg.paper_type = "Glossy"
    /\ arg.color_mode = "Full Color"
    /\ arg.pages = 3
    /\ out.price = 60

\* C16: on paper other than Glossy in Mixed mode the price is
\* c x 10 + (pages - c) x 2 with c the colour pages held down to the page
\* total; it is never above pages x 10 and the black-and-white part is never
\* negative.
C16_MixedClamps ==
    (out # <<>> /\ arg.paper_type # "Glossy" /\ arg.color_mode = "Mixed (B&W + Color)") =>
        LET c == Min(arg.mixed_color_pages, arg.pages)
        IN  /\ out.price = (c * 10) + ((arg.pages - c) * 2)
            /\ out.price <= arg.pages * 10
            /\ out.price - (c * 10) >= 0

C16_Witness ==
    /\ out # <<>>
    /\ arg.paper_type = "Standard"
    /\ arg.color_mode = "Mixed (B&W + Color)"
    /\ arg.pages = 2
    /\ arg.mixed_color_pages = 5
    /\ out.price = 20

\* C17: every evaluation of calculate_price gives a price of at least 0,
\* writes nothing, and an evaluation on the same arguments gives the price
\* of the evaluation before it.
C17_PriceNonNegativePure ==
    [][CalculatePriceCall =>
         /\ out'.price >= 0
         /\ UNCHANGED <<ledger, arg>>
         /\ (out # <<>> => out'.price = out.price)]_vars

C17_Witness ==
    /\ out # <<>>
    /\ out.runs = 2
    /\ arg.pages = 0
    /\ arg.mixed_color_pages = 1
    /\ arg.color_mode = "Mixed (B&W + Color)"
    /\ arg.paper_type = "Standard"
    /\ out.price = 0


\* ---------------------------------------------------------------------------
\* parse_page_range
\* ---------------------------------------------------------------------------

MaxTokens == 3

\* Faulty variant: a range written backwards is read forwards.
RangeEitherWay(start, end) ==
    IF start <= end THEN start..end ELSE end..start

\* range(start, end + 1)
Range(start, end) == start..end

\* The body of the loop for one part: the pages it adds, or the exception of
\* the try block. Two names are bound to the integers of the pieces, so any
\* other number of pieces is a ValueError as well.
PagesOfPart(raw) ==
    LET part == Strip(raw)
    IN  IF \E i \in DOMAIN part : part[i] = "-"
        THEN LET pieces == SplitOn(part, "-")
                 ints == [i \in DOMAIN pieces |-> ParseInt(pieces[i])]
             IN  IF Len(pieces) # 2 \/ \E i \in DOMAIN ints : ints[i].error # "none"
                 THEN [error |-> "ValueError", pages |-> {}]
                 ELSE [error |-> "none", pages |-> Range(ints[1].val, ints[2].val)]
        ELSE LET n == ParseInt(part)
             IN  IF n.error # "none"
                 THEN [error |-> "ValueError", pages |-> {}]
                 ELSE [error |-> "none", pages |-> {n.val}]

\* for part in parts: the set pages after the loop, or the exception that
\* left it.
RECURSIVE PagesLoop(_, _)
PagesLoop(parts, pages) ==
    IF parts = <<>>
    THEN [raised |-> FALSE, pages |-> pages]
    ELSE LET p == PagesOfPart(Head(parts))
         IN  IF p.error = "none" THEN PagesLoop(Tail(parts), pages \cup p.pages)
             ELSE IF p.error = "ValueError" THEN PagesLoop(Tail(parts), pages)
             ELSE [raised |-> TRUE, pages |-> pages]

\* Faulty variant: the pages of every part are counted, part by part.
RECURSIVE SumOfParts(_)
SumOfParts(parts) ==
    IF parts = <<>> THEN 0
    ELSE Cardinality(PagesOfPart(Head(parts)).pages) + SumOfParts(Tail(parts))

ParsePageRangeSum(range_string) ==
    IF range_string = <<>>
    THEN [raised |-> FALSE, count |-> 0]
    ELSE [raised |-> FALSE, count |-> SumOfParts(SplitOn(range_string, ","))]

\* parse_page_range
ParsePageRange(range_string) ==
    IF range_string = <<>>
    THEN [raised |-> FALSE, count |-> 0]
    ELSE LET r == PagesLoop(SplitOn(range_string, ","), {})
         IN  [raised |-> r.raised, count |-> Cardinality(r.pages)]


\* The parts a customer may type between commas, each with the pages it
\* names when read as a page or as a range from..to, and none when it is
\* neither.
Tokens ==
    { [text |-> <<"1">>, pages |-> {1}, form |-> "page"],
      [text |-> <<"3">>, pages |-> {3}, form |-> "page"],
      [text |-> <<" ", "2">>, pages |-> {2}, form |-> "page"],
      [text |-> <<"5", "-", "7">>, pages |-> {5, 6, 7}, form |-> "range"],
      [text |-> <<"1", "-", "2">>, pages |-> {1, 2}, form |-> "range"],
      [text |-> <<"2", "-", "1">>, pages |-> {}, form |-> "reversed"],
      [text |-> <<"x">>, pages |-> {}, form |-> "malformed"],
      [text |-> <<"1", "-", "2", "-", "3">>, pages |-> {}, form |-> "malformed"],
      [text |-> <<"-", "5">>, pages |-> {}, form |-> "malformed"],
      [text |-> <<>>, pages |-> {}, form |-> "malformed"] }

\* ",".join(texts)
RECURSIVE Join(_)
Join(ts) ==
    IF ts = <<>> THEN <<>>
    ELSE IF Len(ts) = 1 THEN ts[1].text
    ELSE ts[1].text \o <<",">> \o Join(Tail(ts))

RangeInputs ==
    { [tokens |-> ts, range_string |-> Join(ts)] :
        ts \in UNION { [1..n -> Tokens] : n \in 0..MaxTokens } }

InitParse ==
    /\ app = "print"
    /\ NoOrders
    /\ arg \in RangeInputs
    /\ out = <<>>

\* mixed_c_count = parse_page_range(c_ranges)
ParsePageRangeCall ==
    /\ "range_string" \in DOMAIN arg
    /\ out = <<>>
    /\ out' = ParsePageRange(arg.range_string)
    /\ UNCHANGED <<ledger, arg>>

NextParse == ParsePageRangeCall

SpecParse == InitParse /\ [][NextParse]_vars

WellFormed(tok) == tok.form \in {"page", "range"}

NamedPages(ts, keep(_)) == UNION { ts[i].pages : i \in { j \in DOMAIN ts : keep(ts[j]) } }

\* The count is the number of distinct pages the parts name, when every
\* part is a page or a range.
CountsDistinctPages ==
    (arg.tokens # <<>> /\ \A i \in DOMAIN arg.tokens : WellFormed(arg.tokens[i]))
        => out.count = Cardinality(NamedPages(arg.tokens, LAMBDA t : TRUE))

\* C18: when every part is a page or a range, parse_page_range returns the
\* number of distinct pages the parts name, a page named twice counted once;
\* "1,3,5-7" names the pages 1, 3, 5, 6, 7 and gives 5, and "1,1,1-2" gives 2.
C18_CountsDistinctPages ==
    out # <<>> =>
        /\ CountsDistinctPages
        /\ arg.range_string = <<"1", ",", "3", ",", "5", "-", "7">> => out.count = 5
        /\ arg.range_string = <<"1", ",", "1", ",", "1", "-", "2">> => out.count = 2

C18_Witness ==
    /\ out # <<>>
    /\ arg.range_string = <<"1", ",", "3", ",", "5", "-", "7">>
    /\ out.count = 5

\* C18 as stated: the same, with "1,3,5-7" giving 4.
C18_AsStated ==
    out # <<>> =>
        /\ CountsDistinctPages
        /\ arg.range_string = <<"1", ",", "3", ",", "5", "-", "7">> => out.count = 4
        /\ arg.range_string = <<"1", ",", "1", ",", "1", "-", "2">> => out.count = 2

\* C19: parse_page_range raises on no input; a part that is not a number, a
\* range written backwards or a part that cannot be read adds no page, and
\* the other parts of the same input are counted; the empty input and "2-1"
\* give 0.
C19_MalformedPartsSkipped ==
    out # <<>> =>
        /\ ~out.raised
        /\ out.count = Cardinality(NamedPages(arg.tokens, WellFormed))
        /\ arg.range_string = <<>> => out.count = 0
        /\ arg.range_string = <<"2", "-", "1">> => out.count = 0

C19_Witness ==
    /\ out # <<>>
    /\ arg.range_string = <<"x", ",", "5", "-", "7", ",", "2", "-", "1">>
    /\ ~out.raised
    /\ out.count = 3


\* ---------------------------------------------------------------------------
\* get_all_orders on the sheets it may find
\* ---------------------------------------------------------------------------

MaxRows == 2

\* The columns of the frame get_all_orders returns.
GetAllOrdersColumns(t, ok) ==
    IF ~ok \/ t = <<>> \/ ~(ExpectedCols \subseteq Columns(t))
    THEN ExpectedCols
    ELSE Columns(t)

\* The rows save_order writes for the submissions, numbered in some order.
SheetRows(a) ==
    { NewOrder(a, id, id, sub) : id \in 1..MaxRows, sub \in Submissions }

\* The sheet with the column c deleted by hand.
WithoutColumn(t, c) ==
    [i \in DOMAIN t |-> [k \in (DOMAIN t[i]) \ {c} |-> t[i][k]]]

\* The sheet with a column added by hand.
WithNotes(t) ==
    [i \in DOMAIN t |->
        [k \in (DOMAIN t[i]) \cup {"notes"} |-> IF k = "notes" THEN "" ELSE t[i][k]]]

\* The sheets conn.read may return: blank, written by save_order only, or
\* edited by hand since.
Sheets(a) ==
    LET written == UNION { [1..n -> SheetRows(a)] : n \in 1..MaxRows }
    IN  {<<>>} \cup written
               \cup { WithoutColumn(t, c) : t \in written, c \in ExpectedCols }
               \cup { WithNotes(t) : t \in written }

InitSheet ==
    /\ app \in Apps
    /\ NoOrders
    /\ arg \in { [sheet |-> t, ok |-> ok] : t \in Sheets(app), ok \in BOOLEAN }
    /\ out = <<>>

\* One call of get_all_orders: except Exception leaves nothing to reach the
\* caller.
GetAllOrdersCall ==
    /\ "sheet" \in DOMAIN arg
    /\ out = <<>>
    /\ out' = [raised |-> FALSE,
               columns |-> GetAllOrdersColumns(arg.sheet, arg.ok),
               rows |-> GetAllOrders(arg.sheet, arg.ok)]
    /\ UNCHANGED <<ledger, arg>>

NextSheet == GetAllOrdersCall

SpecSheet == InitSheet /\ [][NextSheet]_vars

\* What get_all_orders returns on a blank sheet that was read.
OfBlankSheet ==
    [raised |-> FALSE,
     columns |-> GetAllOrdersColumns(<<>>, TRUE),
     rows |-> GetAllOrders(<<>>, TRUE)]

EndsWithPointZero(s) ==
    Len(s) >= 2 /\ s[Len(s) - 1] = "." /\ s[Len(s)] = "0"

\* get_orders_by_phone.normalize_phone, on the characters of str(p)
NormalizePhone(p) ==
    LET s == Strip(p)
    IN  IF EndsWithPointZero(s) THEN SubSeq(s, 1, Len(s) - 2) ELSE s

\* df['phone_clean'] = df['phone'].apply(normalize_phone)
WithPhoneClean(t) ==
    [i \in DOMAIN t |->
        [k \in (DOMAIN t[i]) \cup {"phone_clean"} |->
            IF k = "phone_clean" THEN NormalizePhone(t[i].phone) ELSE t[i][k]]]

\* The orders f has, in each order of its rows.
Reorderings(f) ==
    { [i \in DOMAIN f |-> f[pi[i]]] : pi \in Permutations(DOMAIN f) }

\* Faulty variant: the smallest id first.
SortValuesByIdAscending(f) ==
    { g \in Reorderings(f) :
        \A i, j \in DOMAIN g : i < j => g[i].id <= g[j].id }

\* sort_values(by='id', ascending=False): the rows with the largest id first;
\* the sort is not a stable one, rows of one id come in either order.
SortValuesById(f) ==
    { g \in Reorderings(f) :
        \A i, j \in DOMAIN g : i < j => g[i].id >= g[j].id }

\* get_orders_by_phone after its get_all_orders: the frames it may return.
GetOrdersByPhone(t, phone) ==
    IF t = <<>>
    THEN {t}
    ELSE LET target_phone == NormalizePhone(phone)
         IN  SortValuesById(SelectSeq(WithPhoneClean(t),
                                      LAMBDA r : r.phone_clean = target_phone))

\* What a customer may type for a phone: as in the order form, the digits
\* alone, the digits as a number with a decimal point, blanks around them.
TypedPhones ==
    UNION { { sub.phone, CleanPhone(sub.phone), CleanPhone(sub.phone) \o <<".", "0">>,
              <<" ">> \o CleanPhone(sub.phone) \o <<" ">> } : sub \in Submissions }

\* str(p) of the phone cell of a row save_order wrote, when the sheet hands
\* it back as text or as an integer, and when it hands it back as a float.
PhoneCells(sub) ==
    { CleanPhone(sub.phone), CleanPhone(sub.phone) \o <<".", "0">> }

OrderSheets(a) ==
    LET rows == UNION { { [NewOrder(a, id, id, sub) EXCEPT !.phone = c] :
                            id \in 1..MaxRows, c \in PhoneCells(sub) } :
                          sub \in Submissions }
    IN  UNION { [1..n -> rows] : n \in 0..MaxRows }

InitTrack ==
    /\ app \in Apps
    /\ NoOrders
    /\ arg \in { [sheet |-> t, ok |-> ok, phone |-> ph] :
                   t \in OrderSheets(app), ok \in BOOLEAN, ph \in TypedPhones }
    /\ out = <<>>

\* orders = get_orders_by_phone(phone_input)
GetOrdersByPhoneCall ==
    /\ "phone" \in DOMAIN arg
    /\ out = <<>>
    /\ LET t == GetAllOrders(arg.sheet, arg.ok)
       IN  \E rows \in GetOrdersByPhone(t, arg.phone) :
              out' = [raised |-> FALSE, df |-> t, rows |-> rows]
    /\ UNCHANGED <<ledger, arg>>

NextTrack == GetOrdersByPhoneCall

SpecTrack == InitTrack /\ [][NextTrack]_vars


\* A returned row without the column the lookup added.
AsInTable(r) == [k \in (DOMAIN r) \ {"phone_clean"} |-> r[k]]

\* The rows of the table read whose phone matches the phone asked for, when
\* both are passed through same(_).
Hits(same(_)) ==
    { i \in DOMAIN out.df : same(out.df[i].phone) = same(arg.phone) }

\* The rows returned are the rows of hits, each once.
ReturnsExactly(hits) ==
    /\ Len(out.rows) = Cardinality(hits)
    /\ \A i \in hits : \E j \in DOMAIN out.rows : AsInTable(out.rows[j]) = out.df[i]
    /\ \A j \in DOMAIN out.rows : \E i \in hits : AsInTable(out.rows[j]) = out.df[i]

CanonicalKey(p) ==
    LET s == Strip(p)
        t == IF EndsWithPointZero(s) THEN SubSeq(s, 1, Len(s) - 2) ELSE s
    IN  SelectSeq(t, LAMBDA c : c \in Digits)

\* C13: the phone stored by save_order and the phone looked up by
\* get_orders_by_phone are both brought to the digits-only key, with a
\* trailing ".0" removed first, so that a lookup with a phone typed in any
\* way returns the orders stored under the same digits.
C13_OneKeyForStoreAndLookup ==
    out # <<>> =>
        /\ CleanPhone(arg.phone) = CanonicalKey(arg.phone)
        /\ NormalizePhone(arg.phone) = CanonicalKey(arg.phone)
        /\ ReturnsExactly(Hits(CanonicalKey))


\* ---------------------------------------------------------------------------
\* order_view: the order form, from the button to the message
\* ---------------------------------------------------------------------------

PRICES ==
    [flavor \in {"Vanilla Dream", "Rich Chocolate", "Red Velvet", "Butterscotch", "Fresh Fruit"} |->
        CASE flavor = "Vanilla Dream" -> 400
          [] flavor = "Rich Chocolate" -> 500
          [] flavor = "Red Velvet" -> 600
          [] flavor = "Butterscotch" -> 450
          [] flavor = "Fresh Fruit" -> 550]

SHAPE_PREMIUM ==
    [shape \in {"Round", "Square", "Heart"} |->
        CASE shape = "Round" -> 0 [] shape = "Square" -> 50 [] shape = "Heart" -> 100]

TOPPING_PRICE == 50

\* calculate_cake_price; the slider gives the weight in steps of half a
\* kilogram and half_kg counts them.
CalculateCakePrice(flavor, half_kg, shape, toppings) ==
    LET base == (PRICES[flavor] * half_kg) \div 2
        shape_cost == SHAPE_PREMIUM[shape]
        toppings_cost == Cardinality(toppings) * TOPPING_PRICE
    IN  base + shape_cost + toppings_cost

\* What a customer may type for a phone in the order form.
FormPhones ==
    { <<>>,
      <<"9", "9", "8", "-", "8", "7", "7", "-", "7", "7", "7", "7">>,
      <<"9", "9", "8", "8", "7", "7", "7", "7", "7", "7">>,
      <<"1", "2", "3", "4", "5">> }

\* The forms that may be sent. uploaded_files holds the pages count_pages
\* finds in each file.
Forms(a) ==
    IF a = "print"
    THEN [name : {"", "Asha"}, phone_raw : FormPhones, email : {"asha@example.com"},
          uploaded_files : {<<>>, <<12>>}, agree_terms : BOOLEAN,
          color_mode : {"Mixed (B&W + Color)"}, c_ranges : {<<"1", "-", "3">>},
          paper_type : {"Standard"}, sides : {"Single-sided"}]
    ELSE [name : {"", "Asha"}, phone : FormPhones, email : {"asha@example.com"},
          flavor : {"Vanilla Dream"}, weight : {2}, shape : {"Round"},
          toppings : {{}}, message : {""}]

\* phone, as order_view has it when the button is pressed: the print form
\* keeps the digits of what was typed, the cake form what was typed.
FormPhone(a, f) ==
    IF a = "print"
    THEN SelectSeq(f.phone_raw, LAMBDA c : c \in Digits)
    ELSE f.phone

\* missing, and the test of the cake form.
Missing(a, f) ==
    IF a = "print"
    THEN (IF f.name = "" THEN {"Name"} ELSE {})
         \cup (IF FormPhone(a, f) = <<>> THEN {"Phone"} ELSE {})
         \cup (IF f.uploaded_files = <<>> THEN {"Files"} ELSE {})
         \cup (IF ~f.agree_terms THEN {"Terms of Service Agreement"} ELSE {})
    ELSE (IF f.name = "" THEN {"Name"} ELSE {})
         \cup (IF f.phone = <<>> THEN {"Phone"} ELSE {})

\* if phone and len(phone) != 10: st.error(...), in the print form only.
PhoneError(a, f) ==
    a = "print" /\ FormPhone(a, f) # <<>> /\ Len(FormPhone(a, f)) # 10

RECURSIVE SumPages(_)
SumPages(files) == IF files = <<>> THEN 0 ELSE Head(files) + SumPages(Tail(files))

\* The arguments order_view gives save_order.
SubmissionOf(a, f) ==
    IF a = "print"
    THEN LET detected_pages == SumPages(f.uploaded_files)
             mixed_c_count == IF f.color_mode = "Mixed (B&W + Color)"
                              THEN ParsePageRange(f.c_ranges).count ELSE 0
             price_logic_paper == IF f.paper_type = "Glossy" THEN "Glossy" ELSE "Standard"
         IN  [name |-> f.name, phone |-> FormPhone(a, f), email |-> f.email,
              amount |-> CalculatePrice(detected_pages, f.color_mode, price_logic_paper,
                                        mixed_c_count),
              details |-> [color |-> f.color_mode, paper |-> f.paper_type,
                           sides |-> f.sides, pages |-> detected_pages]]
    ELSE [name |-> f.name, phone |-> f.phone, email |-> f.email,
          amount |-> CalculateCakePrice(f.flavor, f.weight, f.shape, f.toppings),
          details |-> [flavor |-> f.flavor, weight |-> f.weight, shape |-> f.shape,
                       toppings |-> f.toppings, message |-> f.message]]

\* What the page shows for a form.
Shown(s, stage, missing, phone_error, message) ==
    [session |-> s, stage |-> stage, missing |-> missing, phone_error |-> phone_error,
     message |-> message, order_id |-> 0, email |-> "none"]

\* No form sent yet and no phone tracked yet.
NothingGiven == [form |-> <<>>, phone |-> <<>>]

InitForm ==
    /\ app \in Apps
    /\ NoOrders
    /\ arg = NothingGiven
    /\ out = <<>>

\* The button is pressed on the form f: the errors are shown, or save_order
\* is called.
OrderViewSend(s, f) ==
    /\ Quiescent
    /\ out # <<>> => out.stage = "shown"
    /\ arg' = [arg EXCEPT !.form = f]
    /\ IF Missing(app, f) # {}
       THEN /\ out' = Shown(s, "shown", Missing(app, f), PhoneError(app, f), "error")
            /\ UNCHANGED ledger
       ELSE /\ out' = Shown(s, "saving", {}, PhoneError(app, f), "none")
            /\ SaveOrderBegin(s, SubmissionOf(app, f))

OrderViewSubmit(s) == \E f \in Forms(app) : OrderViewSend(s, f)

\* Faulty variant: the message does not depend on how save_order ended.
ReportMessageWhateverSaved(a, outcome, sent) ==
    IF a = "print" /\ ~sent THEN "email failed" ELSE "success"

\* What order_view shows after save_order: had it raised, the run ends with
\* the exception on the page; else the e-mail is sent, and the print form
\* shows the success message when send_email says so, the cake form whatever
\* it says.
ReportMessage(a, outcome, sent) ==
    IF outcome = "raised" THEN "exception"
    ELSE IF a = "print" /\ ~sent THEN "email failed"
    ELSE "success"

\* Faulty variant: an order whose e-mail failed is taken out of the table.
StoreAfterEmailRolledBack(t, id, sent) ==
    IF sent THEN t ELSE SelectSeq(t, LAMBDA r : r.id # id)

\* The table after send_email and the messages: order_view has no call on
\* the store after save_order.
StoreAfterEmail(t, id, sent) == t

\* order_view after save_order.
OrderViewReport ==
    /\ out # <<>>
    /\ out.stage = "saving"
    /\ pc[out.session] = "idle"
    /\ \E sent \in BOOLEAN :
          IF last.outcome = "raised"
          THEN /\ out' = [out EXCEPT !.stage = "shown",
                                     !.message = ReportMessage(app, "raised", FALSE)]
               /\ UNCHANGED store
          ELSE /\ out' = [out EXCEPT !.stage = "shown",
                                     !.message = ReportMessage(app, last.outcome, sent),
                                     !.order_id = last.id,
                                     !.email = IF sent THEN "sent" ELSE "failed"]
               /\ store' = StoreAfterEmail(store, last.id, sent)
    /\ UNCHANGED <<app, pc, call, df, new_id, ver, clock, nupd, nwrites, returned, last,
                   faults, arg>>

NextForm ==
    \E s \in Sessions :
        \/ OrderViewSubmit(s)
        \/ SaveOrderWrite(s)
        \/ OrderViewReport

SpecForm == InitForm /\ [][NextForm]_vars


\* A form the claim calls invalid: a required field missing, or, in the
\* print app, a phone that is not ten digits.
InvalidForm(a, f) ==
    \/ f.name = ""
    \/ (IF a = "print" THEN f.phone_raw ELSE f.phone) = <<>>
    \/ a = "print" /\ (f.uploaded_files = <<>> \/ ~f.agree_terms)
    \/ a = "print" /\ Len(SelectSeq(f.phone_raw, LAMBDA c : c \in Digits)) # 10

\* C20: sending a form with a required field missing, or in the print app
\* with a phone that is not ten digits, shows the submitter an error and
\* neither calls save_order nor writes to the store.
C20_InvalidFormSavesNothing ==
    [][((\E s \in Sessions : OrderViewSubmit(s)) /\ InvalidForm(app, arg'.form))
         => /\ out'.missing # {} \/ out'.phone_error
            /\ out'.stage = "shown"
            /\ UNCHANGED <<pc, call, clock, store, nwrites>>]_vars


\* ---------------------------------------------------------------------------
\* An order of the print app from the form to the tracking page
\* ---------------------------------------------------------------------------

\* The forms of a customer who fills in every field, with a phone of ten
\* digits typed with or without dashes.
CompleteForms ==
    { f \in Forms("print") :
        /\ Missing("print", f) = {}
        /\ ~PhoneError("print", f) }

\* The rows of the dashboard after staff set an order to wait for payment:
\* the id and the amount are the row's own.
ConfirmedUpdates(t) ==
    { [order_id |-> t[i].id, new_status |-> "Waiting for Payment",
       payment_status |-> "Unpaid", new_amount |-> <<t[i].amount>>] : i \in DOMAIN t }

InitLife ==
    /\ app = "print"
    /\ NoOrders
    /\ arg = NothingGiven
    /\ out = <<>>

\* The dashboard's save for one row.
AdminSave(s) ==
    /\ Quiescent
    /\ \E a \in ConfirmedUpdates(store) : UpdateStatusBegin(s, a)
    /\ UNCHANGED <<arg, out>>

\* track_orders_view: the phone typed, and the orders get_orders_by_phone
\* finds for it; the page is drawn with what the calls before it have left.
TrackOrders(s) ==
    /\ Quiescent
    /\ out # <<>> => out.stage = "shown"
    /\ \E f \in CompleteForms, ok \in BOOLEAN :
          /\ arg' = [arg EXCEPT !.phone = f.phone_raw]
          /\ \E rows \in GetOrdersByPhone(GetAllOrders(store, ok), f.phone_raw) :
                out' = [session |-> s, stage |-> "shown", message |-> "orders",
                        readOk |-> ok, rows |-> rows, last |-> last]
    /\ UNCHANGED ledger

NextLife ==
    \E s \in Sessions :
        \/ \E f \in CompleteForms : OrderViewSend(s, f)
        \/ SaveOrderWrite(s)
        \/ OrderViewReport
        \/ AdminSave(s)
        \/ UpdateStatusWrite(s)
        \/ TrackOrders(s)

SpecLife == InitLife /\ [][NextLife]_vars

\* The tracking page is up, drawn from a table that was read, after one
\* order was saved on the empty table with every read and write succeeding,
\* and the phone tracked is the phone as it was typed in the form of that
\* order.
TrackedAfterOneOrder ==
    /\ out # <<>>
    /\ out.message = "orders"
    /\ out.readOk
    /\ ~faults
    /\ clock = 1
    /\ Len(returned) = 1
    /\ arg.form # <<>>
    /\ ~InvalidForm(app, arg.form)
    /\ arg.phone = arg.form.phone_raw

\* The one order is what the tracking page shows, with the amount 48, and
\* with the status Waiting for Payment once update_status has set it.
ShowsTheOrder ==
    /\ Len(out.rows) = 1
    /\ out.rows[1].id = 1
    /\ out.rows[1].name = arg.form.name
    /\ out.rows[1].amount = 48
    /\ out.rows[1].status =
          IF out.last.op = "update_status" /\ out.last.outcome = "returned"
             /\ out.last.readOk /\ out.last.in.order_id = 1
          THEN "Waiting for Payment"
          ELSE IF nupd = 0 THEN "Pending" ELSE out.rows[1].status

\* C14: on a table empty at first, a print order of 12 pages, Mixed with 3
\* colour pages on Standard paper, is stored with amount 48; tracking with
\* the submitter's phone returns that order and no other; after
\* update_status(id, Waiting for Payment, Unpaid, 48) the same tracking
\* returns it with status Waiting for Payment.
C14_OrderLife == TrackedAfterOneOrder => ShowsTheOrder


\* ---------------------------------------------------------------------------
\* Claims about the messages of the order form
\* ---------------------------------------------------------------------------

\* The table holds, under the id shown, the row save_order wrote for the
\* form sent last: its name, phone, e-mail and amount, the first status and
\* Unpaid.
HoldsTheOrder(t, id) ==
    \E i \in DOMAIN t :
        LET row == NewOrder(app, id, t[i].date, SubmissionOf(app, arg.form))
        IN  /\ t[i].id = id
            /\ t[i] = row

\* C21: a conn.update that raises in save_order reaches order_view, which
\* then shows no success message: whenever the success message for order k
\* is on the page, save_order has returned k after a completed write, and
\* the table holds the row with id k.
C21_SuccessOnlyAfterWrite ==
    (out # <<>> /\ out.message = "success") =>
        /\ last.op = "save_order"
        /\ last.outcome = "returned"
        /\ last.id = out.order_id
        /\ nwrites >= 1
        /\ HoldsTheOrder(store, out.order_id)

C21_Witness ==
    /\ out # <<>>
    /\ out.message = "exception"
    /\ last.op = "save_order"
    /\ last.outcome = "raised"
    /\ nwrites = 1
    /\ Len(store) = 1

\* C22: send_email is called after the row is written, and its failure
\* leaves the table as it is: the step that sends the e-mail changes no
\* row, and after an e-mail that failed the table holds the new order as
\* save_order wrote it.
C22_EmailFailureKeepsOrder ==
    /\ [](out # <<>> /\ out.email = "failed" => HoldsTheOrder(store, out.order_id))
    /\ [][OrderViewReport /\ last.outcome = "returned"
            => /\ store' = store
               /\ HoldsTheOrder(store, last.id)]_vars

C22_Witness ==
    /\ out # <<>>
    /\ out.email = "failed"
    /\ out.message = "email failed"
    /\ Len(store) = 2
    /\ out.order_id = 2
    /\ HoldsTheOrder(store, 2)

\* ---------------------------------------------------------------------------
\* Claims about update_status racing with other calls
\* ---------------------------------------------------------------------------

\* The row of table t that holds the order created at date, and what another
\* update than a left of it.
RowOf(t, date) == t[CHOOSE k \in DOMAIN t : t[k].date = date]

\* C28: the write of update_status puts the copy the call read, with its own
\* change, in place of the store: an order that reached the store after that
\* read is gone from it, and a row of another id that was changed after that
\* read is back as it was read, though no call raised an error. The witness is
\* an order whose save_order returned an id after update_status had read, and
\* which no row holds once update_status has written and every call has ended.
C28_StaleWriteBackDiscards ==
    [][\A s \in Sessions :
          UpdateWrites(s) /\ last'.outcome = "returned" =>
              \A i \in DOMAIN store :
                  IF HasOrder(df[s], store[i].date)
                  THEN /\ HasOrder(store', store[i].date)
                       /\ RowOf(store', store[i].date) = RowOf(df[s], store[i].date)
                  ELSE ~HasOrder(store', store[i].date)]_vars

C28_Witness ==
    /\ ~faults
    /\ Quiescent
    /\ last.op = "update_status" /\ last.outcome = "returned"
    /\ Len(returned) = 2
    /\ returned[1].ver < returned[2].ver
    /\ HasOrder(store, returned[1].date)
    /\ ~HasOrder(store, returned[2].date)

\* ---------------------------------------------------------------------------
\* admin_view.make_wa_link: the notify link of a row of the dashboard
\* ---------------------------------------------------------------------------

\* The options of the editor's status and payment_status columns.
StatusOptions ==
    {"Pending", "Waiting for Payment", "Printing", "Ready for Pickup", "Completed"}

PaymentOptions == {"Unpaid", "Paid", "Refunded"}

\* make_wa_link: payment_msg; no branch assigns it when payment_status is
\* neither 'Unpaid' nor 'Paid'.
PaymentMsg(row) ==
    IF row.status = "Waiting for Payment" /\ row.payment_status = "Unpaid"
    THEN [assigned |-> TRUE, text |-> "Please proceed to pay", amount |-> <<row.amount>>]
    ELSE IF row.payment_status = "Unpaid"
    THEN [assigned |-> TRUE, text |-> "Payment Pending", amount |-> <<row.amount>>]
    ELSE IF row.payment_status = "Paid"
    THEN [assigned |-> TRUE, text |-> "Payment Received", amount |-> <<>>]
    ELSE [assigned |-> FALSE]

\* p_str: str(row['phone']).strip() without a trailing ".0"; p_digits: its digits
PDigits(p) ==
    LET s == Strip(p)
        p_str == IF EndsWithPointZero(s) THEN SubSeq(s, 1, Len(s) - 2) ELSE s
    IN  SelectSeq(p_str, LAMBDA c : c \in Digits)

StartsWith(d, pre) == Len(d) >= Len(pre) /\ SubSeq(d, 1, Len(pre)) = pre

\* Faulty variant: the leading 0 of an 11-digit number is kept.
FinalPhoneKeepsZero(p) ==
    LET p_digits == PDigits(p)
    IN  IF Len(p_digits) = 10 THEN <<"9", "1">> \o p_digits
        ELSE IF Len(p_digits) = 12 /\ StartsWith(p_digits, <<"9", "1">>) THEN p_digits
        ELSE <<"9", "1">> \o p_digits

\* make_wa_link: final_phone
FinalPhone(p) ==
    LET p_digits == PDigits(p)
    IN  IF Len(p_digits) = 10 THEN <<"9", "1">> \o p_digits
        ELSE IF Len(p_digits) = 12 /\ StartsWith(p_digits, <<"9", "1">>) THEN p_digits
        ELSE IF Len(p_digits) = 11 /\ StartsWith(p_digits, <<"0">>)
             THEN <<"9", "1">> \o Tail(p_digits)
             ELSE <<"9", "1">> \o p_digits

\* make_wa_link(row): the link, or the UnboundLocalError at the f-string that
\* reads payment_msg.
MakeWaLink(row) ==
    IF ~PaymentMsg(row).assigned
    THEN [raised |-> TRUE]
    ELSE [raised |-> FALSE, final_phone |-> FinalPhone(row.phone), name |-> row.name,
          id |-> row.id, status |-> row.status, payment_msg |-> PaymentMsg(row)]

\* str(row['phone']) for the phones a sheet may hold: a stored phone as text
\* and as a float, with the country prefix, with the trunk prefix, with signs
\* and blanks, and with a digit less or more.
LinkPhones ==
    UNION { LET d == CleanPhone(sub.phone)
            IN  { d, d \o <<".", "0">>, <<"9", "1">> \o d, <<"9", "1">> \o d \o <<".", "0">>,
                  <<"0">> \o d, <<"+", "9", "1", " ">> \o sub.phone, <<" ", "0">> \o sub.phone,
                  Tail(d), <<"1">> \o d, <<"0", "0">> \o d, <<"0", "9", "1">> \o Tail(d) }
            : sub \in Submissions }

LinkRows ==
    { [NewOrder("print", 1, 1, sub) EXCEPT !.phone = p, !.status = st, !.payment_status = pay] :
        sub \in Submissions, p \in LinkPhones, st \in StatusOptions, pay \in PaymentOptions }

InitLink ==
    /\ app = "print"
    /\ NoOrders
    /\ arg \in { [row |-> r] : r \in LinkRows }
    /\ out = <<>>

\* df.apply(make_wa_link, axis=1), for one row
MakeWaLinkCall ==
    /\ "row" \in DOMAIN arg
    /\ out = <<>>
    /\ out' = MakeWaLink(arg.row)
    /\ UNCHANGED <<ledger, arg>>

NextLink == MakeWaLinkCall

SpecLink == InitLink /\ [][NextLink]_vars

\* The digits of the stored phone, a trailing ".0" removed first.
StoredDigits == CanonicalKey(arg.row.phone)

LastDigits(d, n) == SubSeq(d, Len(d) - n + 1, Len(d))

TwelveFrom91(p) == Len(p) = 12 /\ p[1] = "9" /\ p[2] = "1" /\ \A i \in DOMAIN p : p[i] \in Digits

\* C25: the number in the link is "91" and the digits for 10 digits, the
\* digits as they are for 12 digits that begin with 91, and "91" and the last
\* 10 digits for 11 digits that begin with 0; in each of the three cases it is
\* 12 digits that begin with 91.
C25_OutboundNumber ==
    (out # <<>> /\ ~out.raised) =>
        LET d == StoredDigits
            n == out.final_phone
        IN  /\ Len(d) = 10 => n = <<"9", "1">> \o d /\ TwelveFrom91(n)
            /\ (Len(d) = 12 /\ d[1] = "9" /\ d[2] = "1") => n = d /\ TwelveFrom91(n)
            /\ (Len(d) = 11 /\ d[1] = "0") =>
                   n = <<"9", "1">> \o LastDigits(d, 10) /\ TwelveFrom91(n)

C25_Witness ==
    /\ out # <<>> /\ ~out.raised
    /\ Len(StoredDigits) = 11 /\ StoredDigits[1] = "0"
    /\ Len(arg.row.phone) > 11
    /\ out.final_phone = <<"9", "1">> \o LastDigits(StoredDigits, 10)

\* ---------------------------------------------------------------------------
\* main: the sidebar navigation of the print app and the view it dispatches
\* ---------------------------------------------------------------------------

NAV_MAP == [Home |-> "home", OrderNow |-> "order", TrackOrders |-> "track"]

\* REV_NAV_MAP.get(current_page, "Home")
CurrentNav(page) ==
    IF \E l \in DOMAIN NAV_MAP : NAV_MAP[l] = page
    THEN CHOOSE l \in DOMAIN NAV_MAP : NAV_MAP[l] = page
    ELSE "Home"

\* A browser session: session_state['page'], the option the radio holds and
\* the index it was drawn with, and what the session waits for: "none" when
\* the script has ended, else the event that makes the script run.
NewSession == [page |-> "home", selected |-> "Home", index |-> "Home", pending |-> "rerun"]

\* What st.radio returns in a run that draws it with index current_nav: the
\* option it holds; when the index is not the one it was drawn with before,
\* the widget may also be a new one that holds the option of the index.
RadioReturns(ss, current_nav) ==
    IF ss.index = current_nav THEN {ss.selected} ELSE {ss.selected, current_nav}

InitNav ==
    /\ app = "print"
    /\ NoOrders
    /\ arg = [s \in Sessions |-> NewSession]
    /\ out = [s \in Sessions |-> "none"]

\* The visitor picks an option of the radio.
RadioSelect(s) ==
    /\ arg[s].pending = "none"
    /\ \E l \in DOMAIN NAV_MAP :
          /\ l # arg[s].selected
          /\ arg' = [arg EXCEPT ![s].selected = l, ![s].pending = "radio"]
    /\ UNCHANGED <<ledger, out>>

\* The visitor presses a button: Portal in the sidebar, Start Your Order on
\* the home view, Back to Home on the order view.
ButtonClick(s) ==
    /\ arg[s].pending = "none"
    /\ \E b \in {"portal", "start", "back"} :
          /\ b = "start" => out[s] = "home"
          /\ b = "back" => out[s] = "order"
          /\ arg' = [arg EXCEPT ![s].pending = b]
    /\ UNCHANGED <<ledger, out>>

\* main: "Update state if changed"
NavigationChanged(page, selected_page) ==
    selected_page \in DOMAIN NAV_MAP /\ NAV_MAP[selected_page] # page

\* One run of main, up to st.rerun() or to the end of the view dispatched.
MainRun(s) ==
    /\ arg[s].pending # "none"
    /\ LET ss == arg[s]
           current_nav == CurrentNav(ss.page)
       IN  \E selected_page \in RadioReturns(ss, current_nav) :
              LET drawn == [ss EXCEPT !.selected = selected_page, !.index = current_nav]
              IN  IF NavigationChanged(ss.page, selected_page)
                  THEN /\ arg' = [arg EXCEPT ![s] = [drawn EXCEPT !.page = NAV_MAP[selected_page],
                                                                  !.pending = "rerun"]]
                       /\ UNCHANGED out
                  ELSE IF ss.pending = "portal"
                  THEN /\ arg' = [arg EXCEPT ![s] = [drawn EXCEPT !.page = "admin",
                                                                  !.pending = "rerun"]]
                       /\ UNCHANGED out
                  ELSE /\ out' = [out EXCEPT ![s] = ss.page]
                       /\ arg' = [arg EXCEPT ![s] =
                                    IF ss.page = "home" /\ ss.pending = "start"
                                    THEN [drawn EXCEPT !.page = "order", !.pending = "rerun"]
                                    ELSE IF ss.page = "order" /\ ss.pending = "back"
                                    THEN [drawn EXCEPT !.page = "home", !.pending = "rerun"]
                                    ELSE [drawn EXCEPT !.pending = "none"]]
    /\ UNCHANGED ledger

NextNav ==
    \E s \in Sessions :
        \/ RadioSelect(s)
        \/ ButtonClick(s)
        \/ MainRun(s)

SpecNav == InitNav /\ [][NextNav]_vars

\* C27: a run of main that begins with page 'admin' dispatches the admin
\* view, the page still 'admin' when it ends.
C27_PortalRendersAdmin ==
    [][\A s \in Sessions :
          (MainRun(s) /\ arg[s].page = "admin") =>
              /\ arg'[s].page = "admin"
              /\ out'[s] = "admin"]_vars

\* What the runs do with it: no run dispatches the admin view.
AdminNeverDispatched == \A s \in Sessions : out[s] # "admin"

\* ---------------------------------------------------------------------------
\* admin_view: the dashboard, its editor and its save loop
\* ---------------------------------------------------------------------------

\* The customer of the order in row i of a sheet: the two customers in turn.
CustomerAt(i) == CHOOSE sub \in Submissions : (sub.name = "Asha") <=> (i % 2 = 1)

\* The sheets the dashboard is opened on, their id column handed over as
\* text: each row an order as save_order files it, whatever its id cell, the
\* date of a row its place.
DashSheets ==
    UNION { { [i \in 1..n |-> [NewOrder("print", 1, i, CustomerAt(i)) EXCEPT !.id = c[i]]] :
                  c \in [1..n -> TextIds] }
            : n \in 1..MaxRows }

\* The session of the staff.
Staff == CHOOSE s \in Sessions : TRUE

\* What staff may set in one row of the editor.
Edits == StatusOptions \X PaymentOptions

\* edited_df: the table of the editor with row i set to e.
Edited(t, i, e) == [t EXCEPT ![i].status = e[1], ![i].payment_status = e[2]]

\* update_status(row['id'], row['status'], row['payment_status'], row['amount'])
UpdateOf(row) ==
    [order_id |-> row.id, new_status |-> row.status, payment_status |-> row.payment_status,
     new_amount |-> <<row.amount>>]

\* The save loop's "Auto-Email Trigger": pass.
NotifierCalls(row) == {}

\* The page of the dashboard before admin_view has run.
Opened == [stage |-> "run", df |-> <<>>, edited_df |-> <<>>, k |-> 0]

Page(message, raised, links, notified) ==
    [message |-> message, raised |-> raised, links |-> links, notified |-> notified]

InitDash ==
    /\ app = "print"
    /\ store \in DashSheets
    /\ NoCalls
    /\ arg = Opened
    /\ out = Page("none", FALSE, <<>>, {})

\* admin_view from df = get_all_orders() to the editor: the links of the rows,
\* or the exception make_wa_link raises for one of them.
AdminRender ==
    /\ arg.stage = "run"
    /\ pc[Staff] = "idle"
    /\ \E ok \in BOOLEAN :
          LET t == GetAllOrders(store, ok)
              links == [i \in DOMAIN t |-> MakeWaLink(t[i])]
          IN  IF t = <<>>
              THEN /\ arg' = [Opened EXCEPT !.stage = "ended"]
                   /\ out' = Page("none", FALSE, <<>>, {})
              ELSE IF \E i \in DOMAIN t : links[i].raised
              THEN /\ arg' = [Opened EXCEPT !.stage = "ended"]
                   /\ out' = Page("UnboundLocalError", TRUE, <<>>, {})
              ELSE /\ arg' = [Opened EXCEPT !.stage = "editor", !.df = t]
                   /\ out' = Page("none", FALSE, links, {})
    /\ UNCHANGED ledger

\* Staff load the page again after a run that ended without the editor.
AdminReload ==
    /\ arg.stage = "ended"
    /\ arg' = Opened
    /\ UNCHANGED <<ledger, out>>

\* Staff set one row in the editor and press "Save Changes and Notify".
AdminSavePress ==
    /\ arg.stage = "editor"
    /\ clock + nupd + Len(arg.df) <= MaxCalls
    /\ \E i \in DOMAIN arg.df, e \in Edits :
          arg' = [arg EXCEPT !.stage = "saving", !.edited_df = Edited(arg.df, i, e), !.k = 1]
    /\ UNCHANGED <<ledger, out>>

\* The save loop at row k: update_status up to its conn.update, and the
\* notifier.
AdminSaveStep ==
    /\ arg.stage = "saving"
    /\ arg.k <= Len(arg.edited_df)
    /\ arg.k = 1 \/ last.outcome = "returned"
    /\ UpdateStatusBegin(Staff, UpdateOf(arg.edited_df[arg.k]))
    /\ arg' = [arg EXCEPT !.k = @ + 1]
    /\ out' = [out EXCEPT !.notified = @ \cup NotifierCalls(arg.edited_df[arg.k])]

\* conn.update raised in update_status: the run ends with the exception.
AdminSaveRaised ==
    /\ arg.stage = "saving"
    /\ pc[Staff] = "idle"
    /\ arg.k > 1 /\ last.outcome = "raised"
    /\ arg' = [arg EXCEPT !.stage = "ended"]
    /\ out' = [out EXCEPT !.message = "exception", !.raised = TRUE]
    /\ UNCHANGED ledger

\* Faulty variant: the message tells of the rows that were not written.
SaveMessageChecked(t, edited) ==
    IF \A i \in DOMAIN edited : i \in DOMAIN t /\ t[i].status = edited[i].status
    THEN "Database Updated!" ELSE "Not updated"

\* The save loop has ended: st.success("Database Updated!")
SaveMessage(t, edited) == "Database Updated!"

\* After the loop: the message and st.rerun().
AdminSaveDone ==
    /\ arg.stage = "saving"
    /\ pc[Staff] = "idle"
    /\ arg.k > Len(arg.edited_df) /\ last.outcome = "returned"
    /\ arg' = [arg EXCEPT !.stage = "run"]
    /\ out' = [out EXCEPT !.message = SaveMessage(store, arg.edited_df)]
    /\ UNCHANGED ledger

NextDash ==
    \/ AdminRender
    \/ AdminReload
    \/ AdminSavePress
    \/ AdminSaveStep
    \/ UpdateStatusWrite(Staff)
    \/ AdminSaveRaised
    \/ AdminSaveDone

SpecDash == InitDash /\ [][NextDash]_vars

\* ---------------------------------------------------------------------------
\* Claims about the dashboard
\* ---------------------------------------------------------------------------

\* The save loop has ended with its message, every read and write of it done.
SavedAll == out.message = "Database Updated!" /\ ~faults

\* C23: whatever status and payment_status staff set in a row, from whatever
\* the row had, the table holds them once the save has gone through; no
\* combination and no step back is refused.
C23_AnyJumpIsWritten ==
    (SavedAll /\ DistinctIds(arg.df)) =>
        /\ Len(store) = Len(arg.edited_df)
        /\ \A i \in DOMAIN store :
              /\ store[i].status = arg.edited_df[i].status
              /\ store[i].payment_status = arg.edited_df[i].payment_status

C23_Witness ==
    /\ SavedAll
    /\ nupd = 2
    /\ Len(store) = 1
    /\ arg.df[1].status = "Completed" /\ arg.df[1].payment_status = "Paid"
    /\ arg.edited_df[1].status = "Pending" /\ arg.edited_df[1].payment_status = "Unpaid"
    /\ store[1].status = "Pending" /\ store[1].payment_status = "Unpaid"

\* C24: once a save has gone through, a notifier call was made for every
\* order it left in Waiting for Payment, Ready for Pickup or Completed, with
\* the id, the contact and the status of the order.
C24_SaveNotifies ==
    SavedAll =>
        \A i \in DOMAIN store :
            store[i].status \in {"Waiting for Payment", "Ready for Pickup", "Completed"} =>
                \E n \in out.notified :
                    /\ n.id = store[i].id
                    /\ n.phone = store[i].phone /\ n.email = store[i].email
                    /\ n.status = store[i].status

\* The run of admin_view ended in the exception of make_wa_link.
LinkRaised == arg.stage = "ended" /\ out.raised /\ out.message = "UnboundLocalError"

\* C26: whatever staff have set, a run of admin_view builds the link of every
\* row and shows the editor: none ends in an exception of make_wa_link.
C26_DashboardStaysUsable == ~LinkRaised

\* Once a run has ended so, no later run shows the editor.
NoEditorAfterLinkRaised == [](LinkRaised => [](arg.stage # "editor"))

\* The rows of table t whose id, made a number, is id.
RowsWithId(t, id) == { i \in DOMAIN t : ToNumericId(t[i].id) = id }

\* C29: a write of update_status leaves every row that has the id given with
\* the status, the payment_status and the amount given, however many rows
\* have it, and every other row as the call read it.
C29_EveryRowWithTheId ==
    [][(UpdateWrites(Staff) /\ last'.outcome = "returned") =>
            LET a == call[Staff].in
            IN  /\ Len(store') = Len(store)
                /\ \A i \in DOMAIN store :
                      IF i \in RowsWithId(store, a.order_id)
                      THEN /\ store'[i].status = a.new_status
                           /\ store'[i].payment_status = a.payment_status
                           /\ store'[i].amount = a.new_amount[1]
                      ELSE /\ store'[i].status = store[i].status
                           /\ store'[i].payment_status = store[i].payment_status
                           /\ store'[i].amount = store[i].amount]_vars

\* Two orders of two customers under the id 0 their text ids were made into,
\* both with the status and the amount staff set in the row of one.
C29_Witness ==
    /\ SavedAll
    /\ Len(store) = 2
    /\ store[1].id = 0 /\ store[2].id = 0
    /\ store[1].name # store[2].name
    /\ arg.df[1].amount # arg.df[2].amount
    /\ arg.edited_df[1].status = "Pending" /\ arg.edited_df[2].status = "Completed"
    /\ store[1].status = "Completed" /\ store[2].status = "Completed"
    /\ store[1].amount = store[2].amount

\* The step of the save loop in which get_all_orders caught a failed read.
ReadFailsInSave == AdminSaveStep /\ pc'[Staff] = "idle" /\ ~last'.readOk

\* C30: when the read of update_status fails the call returns without a write
\* and without an error, the table as it was, and the loop goes on to its
\* message "Database Updated!" all the same.
C30_FailedReadReportedAsUpdated ==
    /\ [][ReadFailsInSave =>
             /\ store' = store /\ nwrites' = nwrites
             /\ last'.outcome = "returned"
             /\ arg'.stage = "saving"]_vars
    /\ [][AdminSaveDone => out'.message = "Database Updated!"]_vars

C30_Witness ==
    /\ out.message = "Database Updated!"
    /\ ~last.readOk
    /\ nupd = 1 /\ nwrites = 0
    /\ Len(arg.edited_df) = 1
    /\ arg.edited_df[1].status = "Ready for Pickup"
    /\ store[1].status = "Pending"

==============================================================================
